---------------------------- MODULE Spec2Model ----------------------------
(***************************************************************************)
(* A model of xr-satviz's server, src/main.py: the keyword name resolver,  *)
(* the catalog client, the trajectory sampler, the city proximity analyzer *)
(* and the POST / handler that chains them.                                *)
(*                                                                         *)
(* Text is a sequence of one-character strings, an instant is a whole      *)
(* number of seconds, and a latitude or longitude is a whole number of     *)
(* 1e-4 degrees (the precision of the CITIES table).                       *)
(***************************************************************************)
EXTENDS Integers, Sequences, FiniteSets, TLC

VARIABLES
    call,        \* a function under test and its arguments (the unit specifications)
    ret,         \* what that function returned, Pending before it ran
    pc,          \* get_satellite: the handler's position
    data,        \* request.data: the request body, a sequence of bytes
    reply,       \* what the catalog answers to this request's GET
    clock,       \* the time source ts.now() reads, in seconds
    frame,       \* get_satellite's locals
    exc,         \* the exception in flight, NoExc when none
    response,    \* the response of the request, NoResponse until it is ready
    requests,    \* the catalog URLs this request has asked for
    propagated,  \* the instants this request handed to satellite.at, in order
    previous     \* the record of the request before this one, NoRequest when none

vars == <<call, ret, pc, data, reply, clock, frame, exc, response, requests,
          propagated, previous>>

hvars == <<pc, data, reply, clock, frame, exc, response, requests, propagated,
           previous>>

\* A function under test has not returned yet / has returned v.
Pending == <<>>
Returned(v) == <<v>>

(***************************************************************************)
(* Bounds of the model.                                                    *)
(***************************************************************************)
MaxPromptLen == 6
MaxBodyLen == 6
MaxDuration == 3
MaxStart == 20
MaxClock == 2

(***************************************************************************)
(* Text: str.lower, the substring test, str.strip, str.splitlines, join.   *)
(***************************************************************************)
UpperCase == <<"A","B","C","D","E","F","G","H","I","J","K","L","M",
               "N","O","P","Q","R","S","T","U","V","W","X","Y","Z">>
LowerCase == <<"a","b","c","d","e","f","g","h","i","j","k","l","m",
               "n","o","p","q","r","s","t","u","v","w","x","y","z">>

LowerChar(c) ==
    IF \E i \in 1..Len(UpperCase) : UpperCase[i] = c
    THEN LowerCase[CHOOSE i \in 1..Len(UpperCase) : UpperCase[i] = c]
    ELSE c

\* str.lower()
Lower(s) == [i \in 1..Len(s) |-> LowerChar(s[i])]

\* `needle in hay` for two strings
Contains(hay, needle) ==
    \E k \in 0..(Len(hay) - Len(needle)) :
        \A j \in 1..Len(needle) : hay[k + j] = needle[j]

\* The characters str.strip() removes, among those the model's texts hold.
Whitespace == {" ", "\n", "\r", "\t"}

\* The characters str.splitlines() breaks a line at, among those the model's
\* texts hold ("\r\n" is one break).
LineBreaks == {"\n", "\r"}

\* str.strip()
Strip(s) ==
    LET keep == {i \in 1..Len(s) : s[i] \notin Whitespace}
    IN  IF keep = {} THEN <<>>
        ELSE LET lo == CHOOSE i \in keep : \A j \in keep : i <= j
                 hi == CHOOSE i \in keep : \A j \in keep : j <= i
             IN  SubSeq(s, lo, hi)

RECURSIVE SplitLines(_)
\* str.splitlines(): no line for the empty text, none after a final break
SplitLines(s) ==
    IF s = <<>> THEN <<>>
    ELSE LET brk  == {i \in 1..Len(s) : s[i] \in LineBreaks}
             k    == IF brk = {} THEN Len(s) + 1
                     ELSE CHOOSE i \in brk : \A j \in brk : i <= j
             skip == IF k < Len(s) /\ s[k] = "\r" /\ s[k + 1] = "\n"
                     THEN 2 ELSE 1
         IN  <<SubSeq(s, 1, k - 1)>> \o SplitLines(SubSeq(s, k + skip, Len(s)))

\* "\n".join(lines) of three lines
JoinLines(l) == l[1] \o <<"\n">> \o l[2] \o <<"\n">> \o l[3]

\* All texts over an alphabet, up to a length
Texts(alphabet, n) == UNION {[1..k -> alphabet] : k \in 0..n}

(***************************************************************************)
(* The name resolver.                                                      *)
(***************************************************************************)
\* The keyword table, in its declaration order (a dict iterates in it).
SATELLITES == <<
    [keyword |-> <<"i","s","s">>,                     name |-> "ISS (ZARYA)"],
    [keyword |-> <<"h","u","b","b","l","e">>,         name |-> "HST"],
    [keyword |-> <<"s","t","a","r","l","i","n","k">>, name |-> "STARLINK-1007"],
    [keyword |-> <<"n","o","a","a">>,                 name |-> "NOAA 18"],
    [keyword |-> <<"t","i","a","n","g","o","n","g">>, name |-> "CSS (TIANHE)"],
    [keyword |-> <<"g","p","s">>,                     name |-> "GPS BIIA-10"],
    [keyword |-> <<"a","q","u","a">>,                 name |-> "AQUA"],
    [keyword |-> <<"t","e","r","r","a">>,             name |-> "TERRA"],
    [keyword |-> <<"l","a","n","d","s","a","t">>,     name |-> "LANDSAT 8"],
    [keyword |-> <<"g","o","e","s">>,                 name |-> "GOES 16"] >>

DefaultSatellite == "ISS (ZARYA)"

RECURSIVE ScanSatellites(_, _)
\* The loop of find_satellite from table entry i on: the first keyword found
\* in the lower-cased prompt returns its name.
ScanSatellites(prompt_lower, i) ==
    IF i > Len(SATELLITES) THEN DefaultSatellite
    ELSE IF Contains(prompt_lower, SATELLITES[i].keyword)
         THEN SATELLITES[i].name
         ELSE ScanSatellites(prompt_lower, i + 1)

RECURSIVE ScanSatellitesLastWins(_, _, _)
\* The loop with its match assigned instead of returned: the last match wins.
ScanSatellitesLastWins(prompt_lower, i, found) ==
    IF i > Len(SATELLITES) THEN found
    ELSE ScanSatellitesLastWins(prompt_lower, i + 1,
             IF Contains(prompt_lower, SATELLITES[i].keyword)
             THEN SATELLITES[i].name ELSE found)

find_satellite_last_match(prompt) ==
    ScanSatellitesLastWins(Lower(prompt), 1, DefaultSatellite)

find_satellite(prompt) == ScanSatellites(Lower(prompt), 1)

(***************************************************************************)
(* The catalog client.                                                     *)
(***************************************************************************)
NoExc == [type |-> "none", args |-> <<>>]

Raise(type, args) == [type |-> type, args |-> args]

\* The URL of fetch_tle's GET: the name is put in the query as it is.
TleUrl(sat_name) == [path |-> "/NORAD/elements/gp.php",
                     NAME |-> sat_name, FORMAT |-> "tle"]

\* requests.get raises on a timeout and on a connection failure, and returns
\* the response, whatever its status, otherwise.
Get(net) ==
    IF net.failure = "none"
    THEN [raised |-> NoExc,
          response |-> [status_code |-> net.status_code, text |-> net.text]]
    ELSE [raised |-> Raise(net.failure, <<>>),
          response |-> [status_code |-> 0, text |-> <<>>]]

\* The lines of a response body, as fetch_tle counts them.
ResponseLines(text) == SplitLines(Strip(text))

\* fetch_tle's line-count validation and its return value.
ParseTle(sat_name, text) ==
    LET lines == ResponseLines(text)
    IN  IF Len(lines) < 3
        THEN [raised |-> Raise("ValueError", <<"Satellite not found", sat_name>>),
              value  |-> <<>>]
        ELSE [raised |-> NoExc,
              value  |-> <<Strip(lines[1]), Strip(lines[2]), Strip(lines[3])>>]

\* fetch_tle: one GET, then the validation of its body. `requests` is the
\* list of the URLs it asked for.
fetch_tle(sat_name, net) ==
    LET got == Get(net)
    IN  IF got.raised # NoExc
        THEN [raised |-> got.raised, value |-> <<>>,
              requests |-> <<TleUrl(sat_name)>>]
        ELSE LET parsed == ParseTle(sat_name, got.response.text)
             IN  [raised |-> parsed.raised, value |-> parsed.value,
                  requests |-> <<TleUrl(sat_name)>>]

(***************************************************************************)
(* The orbit propagator: skyfield, outside the repository.  satellite.at   *)
(* and wgs84.subpoint are a function of the elements and the instant; the  *)
(* model fixes one such function, whose ground track visits, second after  *)
(* second, every city of the table and points around it.                   *)
(***************************************************************************)
\* The city table, in its declaration order, in 1e-4 degrees.
CITIES == <<
    [name |-> "London",      lat |->  515074, lon |->    -1278],
    [name |-> "New York",    lat |->  407128, lon |->  -740060],
    [name |-> "Tokyo",       lat |->  356762, lon |->  1396503],
    [name |-> "Paris",       lat |->  488566, lon |->    23522],
    [name |-> "Beijing",     lat |->  399042, lon |->  1164074],
    [name |-> "Sydney",      lat |-> -338688, lon |->  1512093],
    [name |-> "Mumbai",      lat |->  190760, lon |->   728777],
    [name |-> "Los Angeles", lat |->  340522, lon |-> -1182437],
    [name |-> "Dubai",       lat |->  252048, lon |->   552708],
    [name |-> "Singapore",   lat |->   13521, lon |->  1038198] >>

\* Where the modelled ground track lies relative to a city, in 1e-4 degrees:
\* on it, at distance exactly 10 (twice), just inside 10 (twice), just
\* outside 10 with both axes under 10, beyond 10 in both axes, and well inside.
TrackOffsets == <<
    <<0, 0>>, <<100000, 0>>, <<60000, -80000>>, <<99999, 0>>,
    <<70710, 70710>>, <<70711, 70711>>, <<-100001, -100001>>, <<30000, 40000>> >>

Track ==
    [k \in 1..(Len(CITIES) * Len(TrackOffsets)) |->
        LET c == CITIES[((k - 1) \div Len(TrackOffsets)) + 1]
            o == TrackOffsets[((k - 1) % Len(TrackOffsets)) + 1]
        IN  [lat |-> c.lat + o[1], lon |-> c.lon + o[2]]]

\* satellite.at(t): position (km), velocity (km/s) and, through
\* wgs84.subpoint, the ground-track point (1e-4 degrees, km).
SatelliteAt(satellite, t) ==
    LET g == Track[(t % Len(Track)) + 1]
    IN  [position |-> <<6000 + (t % 7), 3000 - (t % 5), 1000 + (t % 3)>>,
         velocity |-> <<7, 2, 1>>,
         subpoint |-> [lat |-> g.lat, lon |-> g.lon, elevation |-> 400 + (t % 11)]]

(***************************************************************************)
(* The trajectory sampler.                                                 *)
(***************************************************************************)
SamplesPerMinute == 6
SampleSeconds == 10
DefaultDuration == 90

\* One trajectory sample.  x, y, z are pos / 1000, held in thousandths.
TrajectorySample(satellite, t) ==
    LET geocentric == SatelliteAt(satellite, t)
    IN  [x   |-> geocentric.position[1],
         y   |-> geocentric.position[2],
         z   |-> geocentric.position[3],
         lat |-> geocentric.subpoint.lat,
         lon |-> geocentric.subpoint.lon,
         alt |-> geocentric.subpoint.elevation]

\* The instant of loop index i: now.tt + (i * 10) / 86400 days.
SampleInstant(now, i) == now + i * SampleSeconds

\* The loop with its end included: range(0, duration * 6 + 1).
SampleCountInclusive(duration_minutes) ==
    IF duration_minutes * SamplesPerMinute + 1 > 0
    THEN duration_minutes * SamplesPerMinute + 1 ELSE 0

\* How many times calculate_trajectory's loop runs: range(0, duration * 6).
SampleCount(duration_minutes) ==
    IF duration_minutes * SamplesPerMinute > 0
    THEN duration_minutes * SamplesPerMinute ELSE 0

\* calculate_trajectory with `now` the value its ts.now() read.  `instants`
\* lists what it handed to satellite.at, in call order.
calculate_trajectory(satellite, now, duration_minutes) ==
    LET n == SampleCount(duration_minutes)
    IN  [trajectory |-> [k \in 1..n |->
                            TrajectorySample(satellite, SampleInstant(now, k - 1))],
         instants   |-> [k \in 1..n |-> SampleInstant(now, k - 1)]]

(***************************************************************************)
(* The proximity analyzer.  Squares of coordinate differences pass 2^31,   *)
(* so a squared distance is held as hi * 10^6 + lo.                        *)
(***************************************************************************)
Abs(x) == IF x < 0 THEN -x ELSE x

\* a^2 + b^2, exactly, for |a|, |b| < 4 * 10^6.
SumOfSquares(a, b) ==
    LET a1 == Abs(a) \div 1000   a0 == Abs(a) % 1000
        b1 == Abs(b) \div 1000   b0 == Abs(b) % 1000
        cross == a1 * a0 + b1 * b0              \* in units of 2000
        low   == (cross % 500) * 2000 + a0 * a0 + b0 * b0
    IN  [hi |-> a1 * a1 + b1 * b1 + (cross \div 500) + (low \div 1000000),
         lo |-> low % 1000000]

PairLess(p, q) == p.hi < q.hi \/ (p.hi = q.hi /\ p.lo < q.lo)

\* The "near" threshold, 10 degrees, in 1e-4 degrees.
NearThreshold == 100000

RECURSIVE RootBetween(_, _, _)
\* The greatest r in lo..hi with r^2 <= sq, given lo^2 <= sq.
RootBetween(sq, lo, hi) ==
    IF lo = hi THEN lo
    ELSE LET mid == (lo + hi + 1) \div 2
         IN  IF PairLess(sq, SumOfSquares(mid, 0))
             THEN RootBetween(sq, lo, mid - 1)
             ELSE RootBetween(sq, mid, hi)

\* math.sqrt of a squared distance below the threshold's, in whole 1e-4
\* degrees (rounded down).
Sqrt(sq) == RootBetween(sq, 0, NearThreshold)

KmPerDegree == 111

\* round(distance * 111, 1), in tenths of a km, of a distance in 1e-4 degrees.
DistanceKm(distance) == (distance * KmPerDegree + 500) \div 1000

\* distance <= 10: the comparison with its bound included.
IsNearOrAt(sq) == ~PairLess(SumOfSquares(NearThreshold, 0), sq)

\* distance < 10, on the squared distance.
IsNear(sq) == PairLess(sq, SumOfSquares(NearThreshold, 0))

\* One iteration of calculate_city_passes's loop: the passes so far, with
\* the city appended when the point is near it.
CityPassStep(passes, city, subpoint) ==
    LET sq == SumOfSquares(subpoint.lat - city.lat, subpoint.lon - city.lon)
    IN  IF IsNear(sq)
        THEN Append(passes, [city |-> city.name,
                             distance |-> DistanceKm(Sqrt(sq)),
                             lat |-> city.lat, lon |-> city.lon])
        ELSE passes

RECURSIVE CityPassLoop(_, _, _, _)
\* The loop over the first n cities, in the table's order.
CityPassLoop(satellite, now, cities, n) ==
    IF n = 0 THEN <<>>
    ELSE CityPassStep(CityPassLoop(satellite, now, cities, n - 1),
                      cities[n], SatelliteAt(satellite, now).subpoint)

\* calculate_city_passes with the propagation done once, before the loop.
calculate_city_passes_hoisted(satellite, now, cities) ==
    [passes   |-> CityPassLoop(satellite, now, cities, Len(cities)),
     instants |-> <<now>>]

\* calculate_city_passes with `now` the value its ts.now() read: every
\* iteration propagates the satellite to `now` again.
calculate_city_passes(satellite, now, cities) ==
    [passes   |-> CityPassLoop(satellite, now, cities, Len(cities)),
     instants |-> [k \in 1..Len(cities) |-> now]]

(***************************************************************************)
(* The POST / handler, get_satellite, one step per action.  The time       *)
(* source runs on while the handler does, and the handler reads it three   *)
(* times: for the current position, in calculate_trajectory and in         *)
(* calculate_city_passes.                                                  *)
(***************************************************************************)
\* bytes.decode(): UTF-8.  A byte below 128 is its ASCII character; 0xFF
\* starts no UTF-8 sequence.  The model's bodies hold letters, spaces and 0xFF.
Decodable(bytes) == \A i \in 1..Len(bytes) : bytes[i] < 128

DecodeByte(b) ==
    IF b >= 65 /\ b <= 90 THEN UpperCase[b - 64]
    ELSE IF b >= 97 /\ b <= 122 THEN LowerCase[b - 96]
    ELSE " "

Decode(bytes) == [i \in 1..Len(bytes) |-> DecodeByte(bytes[i])]

\* The request bodies of the model: empty, "Hubble" and the single byte 0xFF
\* (not UTF-8).
Bodies == { <<>>,
            <<72, 117, 98, 98, 108, 101>>,
            <<255>> }

\* What the catalog may answer: a timeout, the title and two element lines
\* (with 200 and with 404), a one-line "no data" text, and three lines that
\* are not elements.
CatalogReplies == {
    [failure |-> "Timeout",         status_code |-> 0,   text |-> <<>>],
    [failure |-> "none", status_code |-> 200,
         text |-> <<"A", "\r", "\n", "1", "\r", "\n", "2", "\r", "\n">>],
    [failure |-> "none", status_code |-> 404,
         text |-> <<"A", "\n", "1", "\n", "2">>],
    [failure |-> "none", status_code |-> 200, text |-> <<"A">>],
    [failure |-> "none", status_code |-> 200,
         text |-> <<"A", "\n", "A", "\n", "A">>] }

NoReply == [failure |-> "none", status_code |-> 0, text |-> <<>>]

\* Whether two lines have the shape of element lines ("1 ...", "2 ...");
\* EarthSatellite is only sure to accept those.
WellFormedElements(line1, line2) ==
    /\ line1 # <<>> /\ line1[1] = "1"
    /\ line2 # <<>> /\ line2[1] = "2"

NoGeocentric == [position |-> <<0, 0, 0>>, velocity |-> <<0, 0, 0>>,
                 subpoint |-> [lat |-> 0, lon |-> 0, elevation |-> 0]]

EmptyFrame == [prompt |-> <<>>, sat_name |-> "", name |-> <<>>,
               line1 |-> <<>>, line2 |-> <<>>, t |-> 0,
               geocentric |-> NoGeocentric,
               trajectory |-> <<>>, city_passes |-> <<>>]

NoResponse == [status |-> 0, json |-> [success |-> FALSE]]

NoRequest == [status |-> 0, requests |-> <<>>, propagations |-> 0]

\* The satellite object EarthSatellite(line1, line2, name, ts) builds.
Satellite(f) == [name |-> f.name, line1 |-> f.line1, line2 |-> f.line2]

RECURSIVE Isqrt(_, _, _)
\* The greatest r in lo..hi with r * r <= n, given lo * lo <= n.
Isqrt(n, lo, hi) ==
    IF lo = hi THEN lo
    ELSE LET mid == (lo + hi + 1) \div 2
         IN  IF mid * mid > n THEN Isqrt(n, lo, mid - 1) ELSE Isqrt(n, mid, hi)

\* math.sqrt of a sum of three squares, in whole units (rounded down).
Norm(v) == Isqrt(v[1] * v[1] + v[2] * v[2] + v[3] * v[3], 0, 46340)

\* The user-facing hint of the error envelope.
Hint == "Try: ISS, Starlink, Hubble, NOAA, Tiangong"

\* The success payload.  Lengths are in whole km, the latency in whole ms
\* (light travels 299792 km in a second), x, y, z in thousandths.
Payload(f) ==
    LET pos      == f.geocentric.position
        subpoint == f.geocentric.subpoint
        distance == Norm(pos)
    IN  [success     |-> TRUE,
         name        |-> f.name,
         position    |-> [x |-> pos[1], y |-> pos[2], z |-> pos[3]],
         groundTrack |-> [lat |-> subpoint.lat, lon |-> subpoint.lon,
                          alt |-> subpoint.elevation],
         stats       |-> [altitude |-> subpoint.elevation,
                          velocity |-> Norm(f.geocentric.velocity),
                          latency  |-> (distance * 1000) \div 299792,
                          distance |-> distance],
         trajectory  |-> f.trajectory,
         cityPasses  |-> f.city_passes,
         cities      |-> [k \in 1..Len(CITIES) |->
                             [name |-> CITIES[k].name, lat |-> CITIES[k].lat,
                              lon |-> CITIES[k].lon]]]

\* The error envelope.
ErrorEnvelope(e) == [success |-> FALSE, error |-> e.args, message |-> Hint]

\* `except Exception` catches ValueError alone.
CatchesValueErrorOnly(type) == type \in {"ValueError", "UnicodeDecodeError"}

\* `except Exception`: every exception the handler's calls raise is one.
Catches(type) == TRUE

\* At which call a loop of n library calls may raise: its first or its last.
FaultPoints(n) == {1, n}

HandlerIdle ==
    /\ pc = "idle"
    /\ data = <<>>
    /\ reply = NoReply
    /\ clock = 0
    /\ frame = EmptyFrame
    /\ exc = NoExc
    /\ response = NoResponse
    /\ requests = <<>>
    /\ propagated = <<>>
    /\ previous = NoRequest

Init ==
    /\ call = [fn |-> "get_satellite"]
    /\ ret = Pending
    /\ HandlerIdle

\* A POST / arrives.
Request ==
    /\ pc = "idle"
    /\ \E body \in Bodies : data' = body
    /\ pc' = "decode"
    /\ UNCHANGED <<call, ret, reply, clock, frame, exc, response, requests,
                   propagated, previous>>

\* line 115: prompt = request.data.decode()
DecodeBody ==
    /\ pc = "decode"
    /\ IF Decodable(data)
       THEN /\ frame' = [frame EXCEPT !.prompt = Decode(data)]
            /\ pc' = "find"
            /\ exc' = exc
       ELSE /\ exc' = Raise("UnicodeDecodeError", <<"invalid start byte">>)
            /\ pc' = "except"
            /\ frame' = frame
    /\ UNCHANGED <<call, ret, data, reply, clock, response, requests,
                   propagated, previous>>

\* line 119: sat_name = find_satellite(prompt)
FindSatellite ==
    /\ pc = "find"
    /\ frame' = [frame EXCEPT !.sat_name = find_satellite(frame.prompt)]
    /\ pc' = "fetch"
    /\ UNCHANGED <<call, ret, data, reply, clock, exc, response, requests,
                   propagated, previous>>

\* line 123: name, line1, line2 = fetch_tle(sat_name)
FetchTle ==
    /\ pc = "fetch"
    /\ \E net \in CatalogReplies :
        LET got == fetch_tle(frame.sat_name, net)
        IN  /\ reply' = net
            /\ requests' = requests \o got.requests
            /\ IF got.raised # NoExc
               THEN /\ exc' = got.raised
                    /\ pc' = "except"
                    /\ frame' = frame
               ELSE /\ frame' = [frame EXCEPT !.name = got.value[1],
                                              !.line1 = got.value[2],
                                              !.line2 = got.value[3]]
                    /\ pc' = "satellite"
                    /\ exc' = exc
    /\ UNCHANGED <<call, ret, data, clock, response, propagated, previous>>

\* lines 126-127: the timescale and the satellite object.  Lines that are
\* not element lines may be refused, with a ValueError, or taken.
CreateSatellite ==
    /\ pc = "satellite"
    /\ \E refused \in BOOLEAN :
        /\ refused => ~WellFormedElements(frame.line1, frame.line2)
        /\ IF refused
           THEN /\ exc' = Raise("ValueError", <<"not an element line">>)
                /\ pc' = "except"
           ELSE /\ exc' = exc
                /\ pc' = "position"
    /\ UNCHANGED <<call, ret, data, reply, clock, frame, response, requests,
                   propagated, previous>>

\* lines 130-144: t = ts.now(), the position, the ground track, the stats.
CurrentPosition ==
    /\ pc = "position"
    /\ propagated' = Append(propagated, clock)
    /\ \E raises \in BOOLEAN :
        IF raises
        THEN /\ exc' = Raise("Exception", <<"propagation failed">>)
             /\ pc' = "except"
             /\ frame' = frame
        ELSE /\ frame' = [frame EXCEPT
                            !.t = clock,
                            !.geocentric = SatelliteAt(Satellite(frame), clock)]
             /\ pc' = "trajectory"
             /\ exc' = exc
    /\ UNCHANGED <<call, ret, data, reply, clock, response, requests, previous>>

\* line 147: trajectory = calculate_trajectory(satellite, ts, 90)
Trajectory ==
    /\ pc = "trajectory"
    /\ LET got == calculate_trajectory(Satellite(frame), clock, DefaultDuration)
       IN  \/ /\ frame' = [frame EXCEPT !.trajectory = got.trajectory]
              /\ propagated' = propagated \o got.instants
              /\ pc' = "passes"
              /\ exc' = exc
           \/ \E k \in FaultPoints(Len(got.instants)) :
              /\ propagated' = propagated \o SubSeq(got.instants, 1, k)
              /\ exc' = Raise("Exception", <<"propagation failed">>)
              /\ pc' = "except"
              /\ frame' = frame
    /\ UNCHANGED <<call, ret, data, reply, clock, response, requests, previous>>

\* line 150: city_passes = calculate_city_passes(satellite, ts, CITIES)
CityPasses ==
    /\ pc = "passes"
    /\ LET got == calculate_city_passes(Satellite(frame), clock, CITIES)
       IN  \/ /\ frame' = [frame EXCEPT !.city_passes = got.passes]
              /\ propagated' = propagated \o got.instants
              /\ pc' = "respond"
              /\ exc' = exc
           \/ \E k \in FaultPoints(Len(got.instants)) :
              /\ propagated' = propagated \o SubSeq(got.instants, 1, k)
              /\ exc' = Raise("Exception", <<"propagation failed">>)
              /\ pc' = "except"
              /\ frame' = frame
    /\ UNCHANGED <<call, ret, data, reply, clock, response, requests, previous>>

\* lines 152-174: return jsonify({...})
Respond ==
    /\ pc = "respond"
    /\ response' = [status |-> 200, json |-> Payload(frame)]
    /\ frame' = EmptyFrame
    /\ pc' = "done"
    /\ UNCHANGED <<call, ret, data, reply, clock, exc, requests, propagated,
                   previous>>

\* lines 176-182: except Exception as e: the envelope, with status 500.  An
\* exception the clause does not catch leaves the handler, and the server
\* answers for it with a 500 of its own, which is no JSON envelope.
Except ==
    /\ pc = "except"
    /\ IF Catches(exc.type)
       THEN /\ response' = [status |-> 500, json |-> ErrorEnvelope(exc)]
            /\ pc' = "done"
       ELSE /\ response' = [status |-> 500,
                            json |-> [html |-> "Internal Server Error"]]
            /\ pc' = "escaped"
    /\ frame' = EmptyFrame
    /\ UNCHANGED <<call, ret, data, reply, clock, exc, requests, propagated,
                   previous>>

\* The response is sent; the handler is ready for the next request.  Nothing
\* of the request stays but the record of it.
Finish ==
    /\ pc = "done"
    /\ previous' = [status |-> response.status, requests |-> requests,
                    propagations |-> Len(propagated)]
    /\ pc' = "idle"
    /\ data' = <<>>
    /\ reply' = NoReply
    /\ frame' = EmptyFrame
    /\ exc' = NoExc
    /\ response' = NoResponse
    /\ requests' = <<>>
    /\ propagated' = <<>>
    /\ UNCHANGED <<call, ret, clock>>

\* The time source moves on by a second.
Tick ==
    /\ clock < MaxClock
    /\ clock' = clock + 1
    /\ UNCHANGED <<call, ret, pc, data, reply, frame, exc, response, requests,
                   propagated, previous>>

Next ==
    \/ Request
    \/ DecodeBody
    \/ FindSatellite
    \/ FetchTle
    \/ CreateSatellite
    \/ CurrentPosition
    \/ Trajectory
    \/ CityPasses
    \/ Respond
    \/ Except
    \/ Finish
    \/ Tick

Spec == Init /\ [][Next]_vars

(***************************************************************************)
(* The unit specifications: one function, applied to every argument of a   *)
(* bounded set.  The handler stands idle in them.                          *)
(***************************************************************************)
PromptAlphabet == {"i", "s", "g", "p", "I"}

InitResolver ==
    /\ call \in {[fn |-> "find_satellite", prompt |-> p] :
                    p \in Texts(PromptAlphabet, MaxPromptLen)}
    /\ ret = Pending
    /\ HandlerIdle

CallFindSatellite ==
    /\ call.fn = "find_satellite"
    /\ ret = Pending
    /\ ret' = Returned(find_satellite(call.prompt))
    /\ UNCHANGED <<call, hvars>>

SpecResolver == InitResolver /\ [][CallFindSatellite]_vars

BodyAlphabet == {"A", " ", "\n", "\r"}

\* What the catalog may answer in the catalog client's specification: every
\* body over the alphabet with a 200 and with a 404, a timeout and a refused
\* connection.
NetOutcomes ==
    {[failure |-> "none", status_code |-> st, text |-> body] :
        st \in {200, 404}, body \in Texts(BodyAlphabet, MaxBodyLen)}
    \cup {[failure |-> f, status_code |-> 0, text |-> <<>>] :
        f \in {"Timeout", "ConnectionError"}}

InitCatalog ==
    /\ call \in {[fn |-> "fetch_tle", sat_name |-> "HST", net |-> n,
                  round |-> 1, first |-> n.text] : n \in NetOutcomes}
    /\ ret = Pending
    /\ HandlerIdle

CallFetchTle ==
    /\ call.fn = "fetch_tle"
    /\ ret = Pending
    /\ ret' = Returned(fetch_tle(call.sat_name, call.net))
    /\ UNCHANGED <<call, hvars>>

\* The three lines a fetch returned, joined by newlines, are served as the
\* body of a second fetch.
FeedBack ==
    /\ call.fn = "fetch_tle"
    /\ call.round = 1
    /\ ret # Pending
    /\ ret[1].raised = NoExc
    /\ call' = [call EXCEPT !.round = 2,
                            !.net = [failure |-> "none", status_code |-> 200,
                                     text |-> JoinLines(ret[1].value)]]
    /\ ret' = Pending
    /\ UNCHANGED hvars

NextCatalog == CallFetchTle \/ FeedBack

SpecCatalog == InitCatalog /\ [][NextCatalog]_vars

TestSatellite == [name |-> <<"A">>, line1 |-> <<"1">>, line2 |-> <<"2">>]

Durations == (0..MaxDuration) \cup {DefaultDuration}

InitSampler ==
    /\ call \in {[fn |-> "calculate_trajectory", now |-> n,
                  duration_minutes |-> d] : n \in 0..MaxStart, d \in Durations}
    /\ ret = Pending
    /\ HandlerIdle

CallCalculateTrajectory ==
    /\ call.fn = "calculate_trajectory"
    /\ ret = Pending
    /\ ret' = Returned(calculate_trajectory(TestSatellite, call.now,
                                            call.duration_minutes))
    /\ UNCHANGED <<call, hvars>>

SpecSampler == InitSampler /\ [][CallCalculateTrajectory]_vars

InitAnalyzer ==
    /\ call \in {[fn |-> "calculate_city_passes", now |-> n] :
                    n \in 0..(Len(Track) - 1)}
    /\ ret = Pending
    /\ HandlerIdle

CallCalculateCityPasses ==
    /\ call.fn = "calculate_city_passes"
    /\ ret = Pending
    /\ ret' = Returned(calculate_city_passes(TestSatellite, call.now, CITIES))
    /\ UNCHANGED <<call, hvars>>

SpecAnalyzer == InitAnalyzer /\ [][CallCalculateCityPasses]_vars

(***************************************************************************)
(* The claims.                                                             *)
(***************************************************************************)
\* The table entries whose keyword occurs in the prompt, whatever its case.
KeywordHits(prompt) ==
    {i \in 1..Len(SATELLITES) :
        \E k \in 0..(Len(prompt) - Len(SATELLITES[i].keyword)) :
            \A j \in 1..Len(SATELLITES[i].keyword) :
                LowerChar(prompt[k + j]) = SATELLITES[i].keyword[j]}

\* C1: find_satellite returns the name of the earliest-declared keyword that
\* occurs in the lower-cased input, and 'ISS (ZARYA)' when none occurs (the
\* empty input included).
C1_FirstDeclaredKeywordWins ==
    ret # Pending =>
        LET hits == KeywordHits(call.prompt)
        IN  IF hits = {}
            THEN ret[1] = "ISS (ZARYA)"
            ELSE \E i \in hits : /\ \A j \in hits : i <= j
                                 /\ ret[1] = SATELLITES[i].name

\* C1's case: "gpsIss" holds the sixth keyword before the first one, which is
\* in mixed case, and resolves to the first one's name.
C1_Witness ==
    /\ ret # Pending
    /\ call.prompt = <<"g", "p", "s", "I", "s", "s">>
    /\ KeywordHits(call.prompt) = {1, 6}
    /\ ret[1] = "ISS (ZARYA)"

\* The lines of a body that hold more than white space.
NonEmptyLineCount(text) ==
    LET lines == SplitLines(text)
    IN  Cardinality({i \in 1..Len(lines) : Strip(lines[i]) # <<>>})

\* C2: on a response, fetch_tle raises the not-found error exactly when the
\* body has fewer than 3 non-empty lines, and returns three lines otherwise.
C2_NotFoundIffFewerThanThreeNonEmptyLines ==
    (ret # Pending /\ call.round = 1 /\ call.net.failure = "none") =>
        /\ (ret[1].raised.type = "ValueError")
              <=> (NonEmptyLineCount(call.net.text) < 3)
        /\ (ret[1].raised = NoExc) => Len(ret[1].value) = 3

\* C3: fetch_tle issues one GET, raises the transport error of a timeout or
\* a connection failure, and returns no elements from a response whose status
\* is not 2xx.
C3_NoElementsFromNon2xx ==
    (ret # Pending /\ call.round = 1) =>
        /\ Len(ret[1].requests) = 1
        /\ (call.net.failure # "none") => ret[1].raised.type = call.net.failure
        /\ (ret[1].raised = NoExc) =>
              (call.net.status_code >= 200 /\ call.net.status_code <= 299)

\* C8: the three lines of a successful fetch, joined by newlines and fed back
\* through the validation, do not raise the not-found error.
C8_RoundTripNeverNotFound ==
    (ret # Pending /\ call.round = 2) => ret[1].raised.type # "ValueError"

PayloadKeys == {"success", "name", "position", "groundTrack", "stats",
                "trajectory", "cityPasses", "cities"}

EnvelopeKeys == {"success", "error", "message"}

\* C4: a handled request ends with 200 and the full payload, or, after any
\* failure, with 500 and the envelope {success: false, error, message}; no
\* response mixes the two and no failure leaves the handler.
C4_PayloadOrEnvelope ==
    /\ pc # "escaped"
    /\ pc = "done" =>
        IF exc = NoExc
        THEN /\ response.status = 200
             /\ DOMAIN response.json = PayloadKeys
             /\ response.json.success = TRUE
        ELSE /\ response.status = 500
             /\ DOMAIN response.json = EnvelopeKeys
             /\ response.json.success = FALSE
             /\ response.json.error = exc.args
             /\ response.json.message = "Try: ISS, Starlink, Hubble, NOAA, Tiangong"

\* C4's case: the trajectory sampler failed at its last sample, after the
\* fetch and the current position succeeded, and the request ended with the
\* envelope.
C4_Witness ==
    /\ pc = "done"
    /\ exc.type = "Exception"
    /\ Len(requests) = 1
    /\ Len(propagated) = 541
    /\ response.status = 500
    /\ DOMAIN response.json = EnvelopeKeys

\* C5: whatever the request body, the handler resolves a known object and
\* issues the catalog fetch for it.
C5_EveryBodyReachesTheFetch ==
    pc = "done" =>
        /\ Len(requests) = 1
        /\ \E i \in 1..Len(SATELLITES) : requests[1].NAME = SATELLITES[i].name

\* C6: calculate_trajectory returns duration_minutes * 6 samples, sample i
\* (0-based) propagated at now + 10 * i seconds, 10 seconds after the one
\* before it.
C6_SampleCountAndSpacing ==
    ret # Pending =>
        LET got == ret[1]
            n   == call.duration_minutes * 6
        IN  /\ Len(got.trajectory) = n
            /\ Len(got.instants) = n
            /\ \A i \in 1..n :
                /\ got.instants[i] = call.now + 10 * (i - 1)
                /\ got.trajectory[i] = TrajectorySample(TestSatellite, got.instants[i])
            /\ \A i \in 1..(n - 1) : got.instants[i + 1] = got.instants[i] + 10

\* C6's case: the 90-minute default gives 540 samples, the last one 5390
\* seconds after the first.
C6_Witness ==
    /\ ret # Pending
    /\ call.duration_minutes = 90
    /\ Len(ret[1].trajectory) = 540
    /\ ret[1].instants[540] = ret[1].instants[1] + 5390

\* The names of the cities of a list of passes, in its order.
PassCities(passes) == [i \in 1..Len(passes) |-> passes[i].city]

\* The place of a city name in the table.
CityIndex(name) == CHOOSE k \in 1..Len(CITIES) : CITIES[k].name = name

\* C7: calculate_city_passes returns exactly the cities whose degree-space
\* distance to the ground-track point is below 10, in the table's order: a
\* city at the point is there with distance 0; a city more than 10 degrees
\* away in both axes, or at distance exactly 10, is not.
C7_NearCitiesInTableOrder ==
    ret # Pending =>
        LET point  == SatelliteAt(TestSatellite, call.now).subpoint
            passes == ret[1].passes
            listed(k) == \E i \in 1..Len(passes) : passes[i].city = CITIES[k].name
            dlat(k) == Abs(point.lat - CITIES[k].lat)
            dlon(k) == Abs(point.lon - CITIES[k].lon)
        IN  /\ \A k \in 1..Len(CITIES) :
                /\ listed(k) <=> SumOfSquares(dlat(k), dlon(k)).hi < 10000
                /\ (dlat(k) = 0 /\ dlon(k) = 0) =>
                      \E i \in 1..Len(passes) :
                          /\ passes[i].city = CITIES[k].name
                          /\ passes[i].distance = 0
                /\ (dlat(k) > 100000 /\ dlon(k) > 100000) => ~listed(k)
                /\ (<<dlat(k), dlon(k)>> \in {<<100000, 0>>, <<60000, 80000>>})
                      => ~listed(k)
            /\ \A i \in 1..Len(passes) :
                /\ \E k \in 1..Len(CITIES) :
                      /\ passes[i].city = CITIES[k].name
                      /\ passes[i].lat = CITIES[k].lat
                      /\ passes[i].lon = CITIES[k].lon
                /\ \A j \in 1..Len(passes) :
                      i < j => CityIndex(passes[i].city) < CityIndex(passes[j].city)

\* C7's case: at Paris's coordinates the result is London, 3.6 degrees away,
\* and then Paris, at distance 0: the table's order, not the nearest first.
C7_Witness ==
    /\ ret # Pending
    /\ SatelliteAt(TestSatellite, call.now).subpoint.lat = 488566
    /\ SatelliteAt(TestSatellite, call.now).subpoint.lon = 23522
    /\ PassCities(ret[1].passes) = <<"London", "Paris">>
    /\ ret[1].passes[1].distance > 0
    /\ ret[1].passes[2].distance = 0

\* Whether this request's catalog fetch was made and failed.
FetchFailed == requests # <<>> /\ fetch_tle("", reply).raised # NoExc

C10_OneInstantPerResponse ==
    (pc = "done" /\ response.json.success) =>
        LET track  == response.json.groundTrack
            passes == response.json.cityPasses
        IN  /\ \A k \in 1..Len(CITIES) :
                (\E i \in 1..Len(passes) : passes[i].city = CITIES[k].name)
                <=> SumOfSquares(track.lat - CITIES[k].lat,
                                 track.lon - CITIES[k].lon).hi < 10000
            /\ propagated[2] = propagated[1]

=============================================================================
